---- MODULE Spec2Model ----
(***************************************************************************)
(* A model of the alpm safe-binding layer: the Alpm handle's option        *)
(* getters and mutators (handle.rs), the package and file-list views       *)
(* (package.rs, filelist.rs) and the removal hook (remove.rs), together    *)
(* with the part of the native library's behaviour that the wrapper's      *)
(* tests pin down.                                                         *)
(*                                                                         *)
(* Strings are sequences of characters.  A native (C) string is such a     *)
(* sequence followed by the terminator Nul; the wrapper converts between   *)
(* the two forms with CStringNew (outgoing) and from_cstr (incoming).      *)
(***************************************************************************)
EXTENDS Integers, Sequences, FiniteSets, TLC

VARIABLES
    opt,     \* the managed list option the session works on (ListSpec)
    lst,     \* the native list behind opt: a sequence of C strings
    given,   \* the strings the caller put into opt and did not take out again
    h,       \* the native handle's scalar options (C strings and ints)
    made,    \* what the caller asked for: the paths at creation, the most
             \* recent check-space flag and signature level set
    alive,   \* the Alpm handle has not been dropped
    views,   \* the views the caller holds
    flist,   \* a FileList: the copy of the native count-and-pointer struct
    pkg,     \* the native record of the package a Pkg view points to
    heap,    \* the native lists allocated so far and the list views held
    last     \* the last wrapper call: its name, arguments and result

listVars == <<opt, lst, given>>
handleVars == <<h, made>>
borrowVars == <<alive, views>>
pkgVars == <<pkg, heap>>
vars == <<opt, lst, given, h, made, alive, views, flist, pkg, heap, last>>

----------------------------------------------------------------------------
(* Bounds *)

\* longest input sequence handed to a bulk set_X
MaxLen == 2
\* longest managed list (add_X is not called on a list of this length)
MaxListLen == 2
\* most native lists allocated in one session (HeapSpec)
MaxAllocs == 5

----------------------------------------------------------------------------
(* Strings *)

Nul == "NUL"

\* the strings callers pass in: plain names, a directory already ending in
\* "/", and one with an embedded nul byte
GoodStrs == {<<"a">>, <<"a", "/">>, <<"b">>}
BadStrs == {<<"a", Nul, "b">>}
Strs == GoodStrs \cup BadStrs

RECURSIVE SeqsUpTo(_, _)
SeqsUpTo(S, n) ==
    IF n = 0 THEN {<<>>}
    ELSE LET shorter == SeqsUpTo(S, n - 1)
         IN  shorter \cup {Append(q, x) : q \in {r \in shorter : Len(r) = n - 1}, x \in S}

\* the sequences handed to a bulk set_X
SetInputs == SeqsUpTo(Strs, MaxLen)

HasNul(s) == \E i \in 1..Len(s) : s[i] = Nul

AnyNul(input) == \E i \in 1..Len(input) : HasNul(input[i])

\* CString::new(s).unwrap(): the bytes followed by the terminator, or a panic
\* when the bytes hold a nul
CStringNew(s) ==
    IF HasNul(s) THEN [panic |-> TRUE, buf |-> <<>>]
    ELSE [panic |-> FALSE, buf |-> Append(s, Nul)]

\* from_cstr: the bytes of a C string up to its terminator
from_cstr(buf) ==
    LET n == CHOOSE i \in 1..Len(buf) :
                 buf[i] = Nul /\ \A j \in 1..(i - 1) : buf[j] # Nul
    IN  SubSeq(buf, 1, n - 1)

\* check_ret: zero is success, anything else the handle's last error
check_ret(ret) == IF ret = 0 THEN "Ok(())" ELSE "Err"

\* a native char pointer: null, or the address of a C string
NullPtr == [null |-> TRUE, str |-> <<>>]

Ptr(cs) == [null |-> FALSE, str |-> cs]

\* Option<&str>
None == [some |-> FALSE, str |-> <<>>]

Some(s) == [some |-> TRUE, str |-> s]

\* from_cstr_optional: None for a null pointer, else the string behind it
from_cstr_optional(p) == IF p.null THEN None ELSE Some(from_cstr(p.str))

\* from_cstr_optional2: the empty string for a null pointer
from_cstr_optional2(p) == IF p.null THEN <<>> ELSE from_cstr(p.str)

----------------------------------------------------------------------------
(* Borrows: which views the caller may hold while it calls what *)

\* the views a caller can hold: the strings of logfile(), gpgdir() and
\* dbext(), the list of hookdirs(), a Db, a Pkg, the FileList of
\* Pkg::files(), the File of FileList::contains(), the Signature of Pkg::sig()
ViewKinds == {"logfile", "gpgdir", "dbext", "hookdirs", "db", "pkg",
              "filelist", "file", "signature"}

\* the views whose type borrows the handle: &str and AlpmList<'_, _> from
\* &self, Db { handle: self, .. }, Pkg<'a> { handle: &'a Alpm, .. }.
\* FileList { inner }, File { inner } and Signature { sig, len } hold no
\* borrow.
BorrowsHandle == {"logfile", "gpgdir", "dbext", "hookdirs", "db", "pkg"}

\* where a view comes from: the handle's getters, or another view
Parent(k) ==
    CASE k \in {"logfile", "gpgdir", "dbext", "hookdirs", "db"} -> "handle"
      [] k = "pkg" -> "db"
      [] k \in {"filelist", "signature"} -> "pkg"
      [] k = "file" -> "filelist"

\* the mutators that take &mut self
MutSelfOps ==
    {"add_hookdir", "set_hookdirs", "remove_hookdir",
     "add_cachedir", "set_cachedirs", "remove_cachedir",
     "add_noupgrade", "set_noupgrades", "remove_noupgrade",
     "add_noextract", "set_noextracts", "remove_noextract",
     "add_ignorepkg", "set_ignorepkgs", "remove_ignorepkg",
     "add_ignoregroup", "set_ignoregroups", "remove_ignoregroup",
     "add_overwrite_file", "set_overwrite_files", "remove_overwrite_file",
     "add_assume_installed", "set_assume_installed", "remove_assume_installed",
     "add_architecture", "set_architectures", "remove_architecture"}

\* the mutators that take &self
SharedSelfOps ==
    {"set_logfile", "set_gpgdir", "set_use_syslog", "set_check_space",
     "set_dbext", "set_default_siglevel", "set_local_file_siglevel",
     "set_remote_file_siglevel", "set_disable_dl_timeout",
     "set_parallel_downloads", "trans_remove_pkg"}

Mutators == MutSelfOps \cup SharedSelfOps

Receiver(op) == IF op \in MutSelfOps THEN "&mut self" ELSE "&self"

\* the borrow checker lets a call through: a shared borrow of the handle
\* always, an exclusive one only while no view borrows the handle
MayCall(op) ==
    /\ alive
    /\ Receiver(op) = "&mut self" => views \cap BorrowsHandle = {}

----------------------------------------------------------------------------
(* The native library's managed lists *)

ListNames == {"hookdirs", "cachedirs", "noupgrades", "noextracts",
              "ignorepkgs", "ignoregroups", "overwrite_files", "architectures"}

\* the lists of directories: the native library stores every entry of these
\* with a trailing "/"
DirLists == {"hookdirs", "cachedirs"}

canonicalize_path(cs) ==
    LET p == from_cstr(cs)
    IN  IF Len(p) > 0 /\ p[Len(p)] = "/" THEN cs
        ELSE Append(Append(p, "/"), Nul)

NativeEntry(X, cs) == IF X \in DirLists THEN canonicalize_path(cs) ELSE cs

\* alpm_option_add_X: a copy of the string goes to the end of the list
alpm_option_add(X, l, cs) == Append(l, NativeEntry(X, cs))

\* alpm_option_set_X: the list is emptied and then holds a copy of each string
alpm_option_set(X, l, cl) == [i \in 1..Len(cl) |-> NativeEntry(X, cl[i])]

\* alpm_option_remove_X: the first entry equal to the string is taken out
\* (1), or nothing is (0)
alpm_option_remove(X, l, cs) ==
    LET key == NativeEntry(X, cs)
        hits == {i \in 1..Len(l) : l[i] = key}
    IN  IF hits = {} THEN [ret |-> 0, list |-> l]
        ELSE LET k == CHOOSE i \in hits : \A j \in hits : i <= j
             IN  [ret |-> 1, list |-> SubSeq(l, 1, k - 1) \o SubSeq(l, k + 1, Len(l))]

----------------------------------------------------------------------------
(* The wrapper's list operations.  Each yields the native list afterwards, *)
(* whether the native function was called, its return code and the         *)
(* wrapper's result.  fail: the native call fails before touching the list.*)

Outcome(l, called, ret, res) ==
    [list |-> l, native |-> called, ret |-> ret, res |-> res]

\* into_raw_alpm_list: every element converted to a C string, a panic when
\* one of them cannot be
into_raw_alpm_list(input) ==
    [panic |-> \E i \in 1..Len(input) : HasNul(input[i]),
     list |-> [i \in 1..Len(input) |-> Append(input[i], Nul)]]

\* add_X written with the bulk setter's native call: the list is replaced
add_X_replaces(X, l, s, fail) ==
    LET c == CStringNew(s)
    IN  IF c.panic THEN Outcome(l, FALSE, 0, "panic")
        ELSE IF fail THEN Outcome(l, TRUE, -1, check_ret(-1))
        ELSE Outcome(alpm_option_set(X, l, <<c.buf>>), TRUE, 0, check_ret(0))

add_X(X, l, s, fail) ==
    LET c == CStringNew(s)
    IN  IF c.panic THEN Outcome(l, FALSE, 0, "panic")
        ELSE IF fail THEN Outcome(l, TRUE, -1, check_ret(-1))
        ELSE Outcome(alpm_option_add(X, l, c.buf), TRUE, 0, check_ret(0))

\* set_X written with the native add call per element: old entries stay
set_X_keeps_old(X, l, input) ==
    LET raw == into_raw_alpm_list(input)
    IN  IF raw.panic THEN Outcome(l, FALSE, 0, "panic")
        ELSE Outcome(l \o alpm_option_set(X, l, raw.list), TRUE, 0, check_ret(0))

\* set_X converting each element only as it hands it to the emptied native
\* list: a bad element stops it half way
set_X_elementwise(X, l, input) ==
    LET bad == {i \in 1..Len(input) : HasNul(input[i])}
        stop == IF bad = {} THEN Len(input) + 1
                ELSE CHOOSE i \in bad : \A j \in bad : i <= j
        done == [i \in 1..(stop - 1) |-> Append(input[i], Nul)]
    IN  IF bad = {} THEN Outcome(alpm_option_set(X, l, done), TRUE, 0, check_ret(0))
        ELSE Outcome(alpm_option_set(X, l, done), TRUE, 0, "panic")

set_X(X, l, input) ==
    LET raw == into_raw_alpm_list(input)
    IN  IF raw.panic THEN Outcome(l, FALSE, 0, "panic")
        ELSE Outcome(alpm_option_set(X, l, raw.list), TRUE, 0, check_ret(0))

\* the decoding without the test for the "removed" code
RemoveResultNoSentinel(ret) ==
    IF check_ret(ret) = "Ok(())" THEN "Ok(false)" ELSE "Err"

\* the decoding of remove_X's native return code
RemoveResult(ret) ==
    IF ret = 1 THEN "Ok(true)"
    ELSE IF check_ret(ret) = "Ok(())" THEN "Ok(false)" ELSE "Err"

remove_X(X, l, s, fail) ==
    LET c == CStringNew(s)
    IN  IF c.panic THEN Outcome(l, FALSE, 0, "panic")
        ELSE IF fail THEN Outcome(l, TRUE, -1, RemoveResult(-1))
        ELSE LET r == alpm_option_remove(X, l, c.buf)
             IN  Outcome(r.list, TRUE, r.ret, RemoveResult(r.ret))

\* the getter X(): the list view, iterated
ListView(l) == [i \in 1..Len(l) |-> from_cstr(l[i])]

----------------------------------------------------------------------------
(* What the caller expects to find in the list (given) *)

\* the form in which a string handed to list X is read back
StoredForm(X, s) ==
    IF X \in DirLists /\ s[Len(s)] # "/" THEN Append(s, "/") ELSE s

RemoveFirst(X, g, s) ==
    LET hits == {i \in 1..Len(g) : StoredForm(X, g[i]) = StoredForm(X, s)}
    IN  IF hits = {} THEN g
        ELSE LET k == CHOOSE i \in hits : \A j \in hits : i <= j
             IN  SubSeq(g, 1, k - 1) \o SubSeq(g, k + 1, Len(g))

\* the record of a list call
Call(op, arg, fail, before, r) ==
    [op |-> op, arg |-> arg, fail |-> fail, before |-> before,
     native |-> r.native, ret |-> r.ret, res |-> r.res]

NoCall == [op |-> "new"]

\* alpm_filelist_t of a package without files: a null pointer, no count
NoFiles == [null |-> TRUE, files |-> <<>>, count |-> 0]

\* alpm_pkg_t of an installed package none of whose optional fields is set:
\* its origin is the local database (2), it was installed explicitly (0)
\* and nothing is known of how it was validated (no bit)
NoPkg ==
    [filename |-> NullPtr, base |-> NullPtr, desc |-> NullPtr, url |-> NullPtr,
     packager |-> NullPtr, arch |-> NullPtr,
     origin |-> 2, reason |-> 0, validation |-> {}]

\* no transaction has been opened on the handle
NoTrans == [open |-> FALSE, remove |-> {}]

\* a native list as the allocator sees it: who made it (the library for
\* itself, the library for the caller, the wrapper for a bulk set) and how
\* often the wrapper and the library have freed it
Alloc(by) == [by |-> by, wfrees |-> 0, nfrees |-> 0]

\* the lists of a fresh session: the licenses of the package (1) and the
\* handle's hookdirs (2), both the library's own; no list view is held
FreshHeap ==
    [lists |-> <<Alloc("native"), Alloc("native")>>, hookdirs |-> 2, held |-> {}]

----------------------------------------------------------------------------
(* The handle and its scalar options *)

\* the directory the process runs in
Cwd == <<"/", "w", "/">>

\* root and database paths given to Alpm::new: the root, a relative path
\* with and without a trailing "/", an absolute path
Paths == {<<"/">>, <<"t", "/">>, <<"t">>, <<"/", "t", "/">>}

\* how the native library stores a directory given at creation: resolved to
\* an absolute path, with a trailing "/"
set_directory_option(cs) ==
    LET p == from_cstr(cs)
        a == IF p[1] = "/" THEN p ELSE Cwd \o p
    IN  canonicalize_path(Append(a, Nul))

\* alpm_initialize: the session of a fresh handle
alpm_initialize(r, d) ==
    [root |-> set_directory_option(r),
     dbpath |-> set_directory_option(d),
     checkspace |-> 0,
     siglevel |-> {},
     logfile |-> NullPtr,
     gpgdir |-> NullPtr,
     dbext |-> <<".", "d", "b", Nul>>,
     usesyslog |-> 0,
     disable_dl_timeout |-> 0,
     parallel_downloads |-> 1,
     local_file_siglevel |-> {},
     remote_file_siglevel |-> {},
     trans |-> NoTrans]

\* Alpm::new(root, dbpath) has just returned Ok
HandleAt(r, d) ==
    /\ h = alpm_initialize(CStringNew(r).buf, CStringNew(d).buf)
    /\ made = [root |-> r, dbpath |-> d, check |-> FALSE, sig |-> {}]

\* root() written with the database path's native getter
root_reads_dbpath(hh) == from_cstr(hh.dbpath)

root(hh) == from_cstr(hh.root)

dbpath(hh) == from_cstr(hh.dbpath)

\* set_check_space's flag conversion with both arms alike
BoolAsIntStuck(b) == 0

\* if b { 1 } else { 0 }
BoolAsInt(b) == IF b THEN 1 ELSE 0

set_check_space(hh, b) == [hh EXCEPT !.checkspace = BoolAsInt(b)]

check_space(hh) == hh.checkspace # 0

\* A 32-bit integer is the set of the positions of its 1 bits (bit 31 is the
\* sign of an i32): a cast between u32 and i32 keeps the bit pattern.
Word32 == 0..31

\* the bit of each SigLevel flag: PACKAGE, PACKAGE_OPTIONAL, DATABASE,
\* USE_DEFAULT
SigFlagBits == {0, 1, 10, 30}

\* every combination of the flags (NONE is the empty one)
SigLevels == SUBSET SigFlagBits

\* bits() as i16, widened to the native int: the high flags are cut off
BitsAsI16(u) ==
    LET low == u \cap (0..15)
    IN  IF 15 \in u THEN low \cup (16..31) ELSE low

\* bits() as i32
BitsAsI32(u) == u \cap Word32

\* ret as u32
IntAsU32(i) == i \cap Word32

\* SigLevel::from_bits(bits).unwrap(): the level, or a panic when a bit of
\* bits is no flag
from_bits(bits) ==
    [panic |-> ~(bits \subseteq SigFlagBits), bits |-> bits]

\* set_default_siglevel; fail: the native library rejects the level
set_default_siglevel(hh, s, fail) ==
    IF fail THEN [h |-> hh, ret |-> -1, res |-> check_ret(-1)]
    ELSE [h |-> [hh EXCEPT !.siglevel = BitsAsI32(s)], ret |-> 0, res |-> check_ret(0)]

default_siglevel(hh) == from_bits(IntAsU32(hh.siglevel))

HandleInit ==
    /\ \E r \in Paths, d \in Paths : HandleAt(r, d)
    /\ opt = "hookdirs" /\ lst = <<>> /\ given = <<>>
    /\ alive = TRUE /\ views = {}
    /\ flist = NoFiles
    /\ pkg = NoPkg /\ heap = FreshHeap
    /\ last = NoCall

Root ==
    /\ last' = [op |-> "root", res |-> root(h)]
    /\ UNCHANGED <<listVars, handleVars, borrowVars, flist, pkgVars>>

Dbpath ==
    /\ last' = [op |-> "dbpath", res |-> dbpath(h)]
    /\ UNCHANGED <<listVars, handleVars, borrowVars, flist, pkgVars>>

SetCheckSpace ==
    \E b \in BOOLEAN :
        /\ h' = set_check_space(h, b)
        /\ made' = [made EXCEPT !.check = b]
        /\ last' = [op |-> "set_check_space", arg |-> b]
        /\ UNCHANGED <<listVars, borrowVars, flist, pkgVars>>

CheckSpace ==
    /\ last' = [op |-> "check_space", res |-> check_space(h)]
    /\ UNCHANGED <<listVars, handleVars, borrowVars, flist, pkgVars>>

SetDefaultSiglevel ==
    \E s \in SigLevels, fail \in BOOLEAN :
        LET r == set_default_siglevel(h, s, fail)
        IN  /\ h' = r.h
            /\ made' = IF fail THEN made ELSE [made EXCEPT !.sig = s]
            /\ last' = [op |-> "set_default_siglevel", arg |-> s, was |-> made.sig,
                        ret |-> r.ret, res |-> r.res]
            /\ UNCHANGED <<listVars, borrowVars, flist, pkgVars>>

DefaultSiglevel ==
    /\ last' = [op |-> "default_siglevel", res |-> default_siglevel(h)]
    /\ UNCHANGED <<listVars, handleVars, borrowVars, flist, pkgVars>>

Next == Root \/ Dbpath \/ SetCheckSpace \/ CheckSpace
            \/ SetDefaultSiglevel \/ DefaultSiglevel

Spec == HandleInit /\ [][Next]_vars

----------------------------------------------------------------------------
(* File lists *)

\* the names of a package's files, in the order the native library keeps
\* them in
FileNames == << <<"a", "/">>, <<"b">>, <<"c">>, <<"d">> >>

\* the paths looked up: the names, one that no package has, one with an
\* embedded nul
LookupPaths == {FileNames[i] : i \in 1..Len(FileNames)} \cup {<<"z">>} \cup BadStrs

\* alpm_file_t
FileRecord(i) == [name |-> Append(FileNames[i], Nul), size |-> i, mode |-> 420]

\* the ordered array of the files picked by S
RECURSIVE FileArray(_, _)
FileArray(S, i) ==
    IF i > Len(FileNames) THEN <<>>
    ELSE (IF i \in S THEN <<FileRecord(i)>> ELSE <<>>) \o FileArray(S, i + 1)

\* the file lists Pkg::files() can return
FileLists ==
    {NoFiles} \cup
    {[null |-> FALSE, files |-> FileArray(S, 1), count |-> Cardinality(S)] :
        S \in SUBSET (1..Len(FileNames))}

\* File::name
name(file) == from_cstr(file.name)

\* File::size
size(file) == file.size

\* File::mode
mode(file) == file.mode

\* the record standing for "no file"
NoFile == [name |-> <<Nul>>, size |-> 0, mode |-> 0]

\* files() taking count records whatever the pointer is: behind a null
\* pointer it finds records that are not there
files_trusts_count(fl) ==
    [i \in 1..fl.count |-> IF i <= Len(fl.files) THEN fl.files[i] ELSE NoFile]

\* FileList::files: no records behind a null pointer, else count of them
files(fl) == IF fl.null THEN <<>> ELSE SubSeq(fl.files, 1, fl.count)

\* alpm_filelist_contains: the position of the record with that name, 0
\* (a null pointer) when there is none
alpm_filelist_contains(fl, cs) ==
    LET hits == {i \in 1..fl.count : fl.files[i].name = cs}
    IN  IF fl.null \/ hits = {} THEN 0 ELSE CHOOSE i \in hits : TRUE

Found(some, file) == [tag |-> "Ok", some |-> some, file |-> file]

\* contains written with the null check that turns a null pointer into the
\* handle's last error
contains_null_is_err(fl, path) ==
    LET c == CStringNew(path)
    IN  IF c.panic THEN [tag |-> "panic", some |-> FALSE, file |-> NoFile]
        ELSE LET at == alpm_filelist_contains(fl, c.buf)
             IN  IF at = 0 THEN [tag |-> "Err", some |-> FALSE, file |-> NoFile]
                 ELSE Found(TRUE, fl.files[at])

\* FileList::contains
contains(fl, path) ==
    LET c == CStringNew(path)
    IN  IF c.panic THEN [tag |-> "panic", some |-> FALSE, file |-> NoFile]
        ELSE LET at == alpm_filelist_contains(fl, c.buf)
             IN  IF at = 0 THEN Found(FALSE, NoFile)
                 ELSE Found(TRUE, fl.files[at])

FileInit ==
    /\ flist \in FileLists
    /\ alive = TRUE /\ views = {}
    /\ opt = "hookdirs" /\ lst = <<>> /\ given = <<>>
    /\ HandleAt(<<"/">>, <<"t", "/">>)
    /\ pkg = NoPkg /\ heap = FreshHeap
    /\ last = NoCall

Files ==
    /\ last' = [op |-> "files", res |-> files(flist)]
    /\ UNCHANGED <<flist, pkgVars, borrowVars, listVars, handleVars>>

Contains ==
    \E path \in LookupPaths :
        /\ last' = [op |-> "contains", path |-> path, res |-> contains(flist, path)]
        /\ UNCHANGED <<flist, pkgVars, borrowVars, listVars, handleVars>>

FileNext == Files \/ Contains

FileSpec == FileInit /\ [][FileNext]_vars

----------------------------------------------------------------------------
(* File lists as the struct allows them: any count next to a null pointer *)

RawFileLists ==
    FileLists \cup
    {[null |-> TRUE, files |-> <<>>, count |-> n] : n \in 1..Len(FileNames)}

RawFileInit ==
    /\ flist \in RawFileLists
    /\ alive = TRUE /\ views = {}
    /\ opt = "hookdirs" /\ lst = <<>> /\ given = <<>>
    /\ HandleAt(<<"/">>, <<"t", "/">>)
    /\ pkg = NoPkg /\ heap = FreshHeap
    /\ last = NoCall

\* a record of files() is read, as Debug for FileList does for each
Entry ==
    \E i \in 1..Len(files(flist)), f \in {"name", "size", "mode"} :
        LET file == files(flist)[i]
        IN  /\ last' = [op |-> "entry", at |-> i, field |-> f,
                        res |-> CASE f = "name" -> name(file)
                                  [] f = "size" -> <<size(file)>>
                                  [] f = "mode" -> <<mode(file)>>]
            /\ UNCHANGED <<flist, pkgVars, borrowVars, listVars, handleVars>>

RawFileNext == Files \/ Entry

RawFileSpec == RawFileInit /\ [][RawFileNext]_vars

----------------------------------------------------------------------------
(* Actions on borrows *)

BorrowInit ==
    /\ alive = TRUE /\ views = {}
    /\ opt = "hookdirs" /\ lst = <<>> /\ given = <<>>
    /\ HandleAt(<<"/">>, <<"t", "/">>)
    /\ flist = NoFiles
    /\ pkg = NoPkg /\ heap = FreshHeap
    /\ last = NoCall

\* a getter of the handle hands out a view
Get ==
    \E k \in ViewKinds :
        /\ Parent(k) = "handle"
        /\ alive
        /\ views' = views \cup {k}
        /\ last' = [op |-> "get", view |-> k]
        /\ UNCHANGED <<alive, listVars, handleVars, flist, pkgVars>>

\* a view is made from another view, which is read for it (Db::pkg,
\* Pkg::files, Pkg::sig, FileList::contains)
Derive ==
    \E k \in ViewKinds :
        /\ Parent(k) \in views
        /\ views' = views \cup {k}
        /\ last' = [op |-> "read", view |-> Parent(k), alive |-> alive]
        /\ UNCHANGED <<alive, listVars, handleVars, flist, pkgVars>>

\* an accessor of a view is called (FileList::files, File::name, ...)
ReadView ==
    \E k \in views :
        /\ last' = [op |-> "read", view |-> k, alive |-> alive]
        /\ UNCHANGED <<borrowVars, listVars, handleVars, flist, pkgVars>>

\* the caller lets go of a view
Release ==
    \E k \in views :
        /\ views' = views \ {k}
        /\ last' = [op |-> "release", view |-> k]
        /\ UNCHANGED <<alive, listVars, handleVars, flist, pkgVars>>

\* a mutator of the handle is called
Mutate ==
    \E op \in Mutators :
        /\ MayCall(op)
        /\ last' = [op |-> "mutate", name |-> op, held |-> views]
        /\ UNCHANGED <<borrowVars, listVars, handleVars, flist, pkgVars>>

\* the handle goes out of scope: allowed once nothing borrows it
DropHandle ==
    /\ alive
    /\ views \cap BorrowsHandle = {}
    /\ alive' = FALSE
    /\ last' = [op |-> "drop"]
    /\ UNCHANGED <<views, listVars, handleVars, flist, pkgVars>>

BorrowNext == Get \/ Derive \/ ReadView \/ Release \/ Mutate \/ DropHandle

BorrowSpec == BorrowInit /\ [][BorrowNext]_vars

----------------------------------------------------------------------------
(* Actions on the managed list *)

ListInit ==
    /\ opt \in ListNames
    /\ lst = <<>>
    /\ given = <<>>
    /\ HandleAt(<<"/">>, <<"t", "/">>)
    /\ alive = TRUE /\ views = {}
    /\ flist = NoFiles
    /\ pkg = NoPkg /\ heap = FreshHeap
    /\ last = NoCall

AddX ==
    \E s \in Strs, fail \in BOOLEAN :
        /\ Len(lst) < MaxListLen
        /\ LET r == add_X(opt, lst, s, fail)
           IN  /\ lst' = r.list
               /\ last' = Call("add", <<s>>, fail, lst, r)
        /\ given' = IF HasNul(s) \/ fail THEN given ELSE Append(given, s)
        /\ UNCHANGED <<opt, handleVars, borrowVars, flist, pkgVars>>

SetX ==
    \E input \in SetInputs :
        /\ LET r == set_X(opt, lst, input)
           IN  /\ lst' = r.list
               /\ last' = Call("set", input, FALSE, lst, r)
        /\ given' = IF \E i \in 1..Len(input) : HasNul(input[i]) THEN given ELSE input
        /\ UNCHANGED <<opt, handleVars, borrowVars, flist, pkgVars>>

RemoveX ==
    \E s \in Strs, fail \in BOOLEAN :
        /\ LET r == remove_X(opt, lst, s, fail)
           IN  /\ lst' = r.list
               /\ last' = Call("remove", <<s>>, fail, lst, r)
        /\ given' = IF HasNul(s) \/ fail THEN given ELSE RemoveFirst(opt, given, s)
        /\ UNCHANGED <<opt, handleVars, borrowVars, flist, pkgVars>>

GetX ==
    /\ last' = [op |-> "get", view |-> ListView(lst),
                after |-> IF last.op = "get" THEN last.after ELSE last]
    /\ UNCHANGED <<listVars, handleVars, borrowVars, flist, pkgVars>>

ListNext == AddX \/ SetX \/ RemoveX \/ GetX

ListSpec == ListInit /\ [][ListNext]_vars

----------------------------------------------------------------------------
(* Optional strings of a package and of the handle *)

\* what a native string field can hold: nothing, the empty string, a name
PtrVals == {NullPtr, Ptr(<<Nul>>), Ptr(<<"a", Nul>>)}

\* the log file names callers pass in: the empty one, a name, one with an
\* embedded nul
LogStrs == {<<>>, <<"a">>} \cup BadStrs

filename(p) == from_cstr_optional2(p.filename)

base(p) == from_cstr_optional(p.base)

desc(p) == from_cstr_optional(p.desc)

\* url() written with the bridge that filename() uses
url_null_as_empty(p) == Some(from_cstr_optional2(p.url))

url(p) == from_cstr_optional(p.url)

packager(p) == from_cstr_optional(p.packager)

arch(p) == from_cstr_optional(p.arch)

logfile(hh) == from_cstr_optional(hh.logfile)

gpgdir(hh) == from_cstr_optional2(hh.gpgdir)

\* set_logfile: the native library keeps a copy of the string; fail: it
\* cannot
set_logfile(hh, s, fail) ==
    LET c == CStringNew(s)
    IN  IF c.panic THEN [h |-> hh, native |-> FALSE, ret |-> 0, res |-> "panic"]
        ELSE IF fail THEN [h |-> hh, native |-> TRUE, ret |-> -1, res |-> check_ret(-1)]
        ELSE [h |-> [hh EXCEPT !.logfile = Ptr(c.buf)], native |-> TRUE,
              ret |-> 0, res |-> check_ret(0)]

\* the packages a Pkg view can point to, as far as their strings go
StrPkgs ==
    {[NoPkg EXCEPT !.filename = f, !.base = b, !.desc = d, !.url = u,
                   !.packager = k, !.arch = a] :
        f \in PtrVals, b \in PtrVals, d \in PtrVals, u \in PtrVals,
        k \in PtrVals, a \in PtrVals}

PkgInit ==
    /\ pkg \in StrPkgs
    /\ heap = FreshHeap
    /\ HandleAt(<<"/">>, <<"t", "/">>)
    /\ opt = "hookdirs" /\ lst = <<>> /\ given = <<>>
    /\ alive = TRUE /\ views = {}
    /\ flist = NoFiles
    /\ last = NoCall

Filename ==
    /\ last' = [op |-> "filename", res |-> filename(pkg)]
    /\ UNCHANGED <<listVars, handleVars, borrowVars, flist, pkgVars>>

Base ==
    /\ last' = [op |-> "base", res |-> base(pkg)]
    /\ UNCHANGED <<listVars, handleVars, borrowVars, flist, pkgVars>>

Desc ==
    /\ last' = [op |-> "desc", res |-> desc(pkg)]
    /\ UNCHANGED <<listVars, handleVars, borrowVars, flist, pkgVars>>

Url ==
    /\ last' = [op |-> "url", res |-> url(pkg)]
    /\ UNCHANGED <<listVars, handleVars, borrowVars, flist, pkgVars>>

Packager ==
    /\ last' = [op |-> "packager", res |-> packager(pkg)]
    /\ UNCHANGED <<listVars, handleVars, borrowVars, flist, pkgVars>>

Arch ==
    /\ last' = [op |-> "arch", res |-> arch(pkg)]
    /\ UNCHANGED <<listVars, handleVars, borrowVars, flist, pkgVars>>

Logfile ==
    /\ last' = [op |-> "logfile", res |-> logfile(h)]
    /\ UNCHANGED <<listVars, handleVars, borrowVars, flist, pkgVars>>

Gpgdir ==
    /\ last' = [op |-> "gpgdir", res |-> gpgdir(h)]
    /\ UNCHANGED <<listVars, handleVars, borrowVars, flist, pkgVars>>

SetLogfile ==
    \E s \in LogStrs, fail \in BOOLEAN :
        LET r == set_logfile(h, s, fail)
        IN  /\ h' = r.h
            /\ last' = [op |-> "set_logfile", arg |-> <<s>>, fail |-> fail,
                        native |-> r.native, ret |-> r.ret, res |-> r.res]
            /\ UNCHANGED <<made, listVars, borrowVars, flist, pkgVars>>

PkgNext == Filename \/ Base \/ Desc \/ Url \/ Packager \/ Arch
               \/ Logfile \/ Gpgdir \/ SetLogfile

PkgSpec == PkgInit /\ [][PkgNext]_vars

----------------------------------------------------------------------------
(* Native lists and their deallocation.  HeapSpec follows the allocations  *)
(* behind the list views; ListSpec follows the contents of a list.         *)

\* AlpmList::from_parts / AlpmListMut::from_parts: a view of native list id
from_parts(kind, id) == [kind |-> kind, list |-> id]

\* the list a native compute call builds for its caller
alpm_pkg_compute(hp) == [hp EXCEPT !.lists = Append(@, Alloc("computed"))]

Hold(hp, v) == [heap |-> [hp EXCEPT !.held = @ \cup {v}], view |-> v]

\* Pkg::licenses: the package's own list (1)
licenses(hp) == Hold(hp, from_parts("AlpmList", 1))

\* Alpm::hookdirs: the handle's own list
hookdirs(hp) == Hold(hp, from_parts("AlpmList", hp.hookdirs))

\* required_by written with the view type of the getters
required_by_borrowed(hp) ==
    LET n == alpm_pkg_compute(hp)
    IN  Hold(n, from_parts("AlpmList", Len(n.lists)))

\* Pkg::required_by
required_by(hp) ==
    LET n == alpm_pkg_compute(hp)
    IN  Hold(n, from_parts("AlpmListMut", Len(n.lists)))

\* Pkg::optional_for
optional_for(hp) ==
    LET n == alpm_pkg_compute(hp)
    IN  Hold(n, from_parts("AlpmListMut", Len(n.lists)))

\* a list view goes out of scope: AlpmListMut frees its list, AlpmList
\* frees nothing
drop_list(hp, v) ==
    [hp EXCEPT !.held = @ \ {v},
               !.lists = IF v.kind = "AlpmListMut"
                         THEN [@ EXCEPT ![v.list].wfrees = @ + 1] ELSE @]

\* the list behind v has been freed
Freed(hp, v) == hp.lists[v.list].wfrees + hp.lists[v.list].nfrees > 0

\* the allocations of a set_hookdirs that reaches the native call: the
\* wrapper builds a raw list, the library frees its old list and keeps a
\* copy of the raw one, the raw list is freed when set_hookdirs returns
set_X_allocs(hp) ==
    LET raw == Len(hp.lists) + 1
        new == Len(hp.lists) + 2
        built == hp.lists \o <<Alloc("raw"), Alloc("native")>>
    IN  [hp EXCEPT !.lists = [built EXCEPT ![hp.hookdirs].nfrees = @ + 1,
                                           ![raw].wfrees = @ + 1],
                   !.hookdirs = new]

HeapInit ==
    /\ heap = FreshHeap
    /\ pkg = NoPkg
    /\ HandleAt(<<"/">>, <<"t", "/">>)
    /\ opt = "hookdirs" /\ lst = <<>> /\ given = <<>>
    /\ alive = TRUE /\ views = {}
    /\ flist = NoFiles
    /\ last = NoCall

Licenses ==
    LET r == licenses(heap)
    IN  /\ heap' = r.heap
        /\ last' = [op |-> "licenses", view |-> r.view]
        /\ UNCHANGED <<pkg, listVars, handleVars, borrowVars, flist>>

Hookdirs ==
    LET r == hookdirs(heap)
    IN  /\ heap' = r.heap
        /\ last' = [op |-> "hookdirs", view |-> r.view]
        /\ UNCHANGED <<pkg, listVars, handleVars, borrowVars, flist>>

RequiredBy ==
    /\ Len(heap.lists) < MaxAllocs
    /\ LET r == required_by(heap)
       IN  /\ heap' = r.heap
           /\ last' = [op |-> "required_by", view |-> r.view]
    /\ UNCHANGED <<pkg, listVars, handleVars, borrowVars, flist>>

OptionalFor ==
    /\ Len(heap.lists) < MaxAllocs
    /\ LET r == optional_for(heap)
       IN  /\ heap' = r.heap
           /\ last' = [op |-> "optional_for", view |-> r.view]
    /\ UNCHANGED <<pkg, listVars, handleVars, borrowVars, flist>>

\* a held list view is iterated
ReadList ==
    \E v \in heap.held :
        /\ last' = [op |-> "read_list", view |-> v, freed |-> Freed(heap, v)]
        /\ UNCHANGED <<pkgVars, listVars, handleVars, borrowVars, flist>>

\* a held list view goes out of scope
DropList ==
    \E v \in heap.held :
        /\ heap' = drop_list(heap, v)
        /\ last' = [op |-> "drop_list", view |-> v]
        /\ UNCHANGED <<pkg, listVars, handleVars, borrowVars, flist>>

\* set_hookdirs(&mut self, ..): every list view borrows the handle, so none
\* is held
SetHookdirs ==
    \E input \in {<< <<"a">> >>, << <<"a", Nul, "b">> >>} :
        /\ heap.held = {}
        /\ Len(heap.lists) + 2 <= MaxAllocs
        /\ LET r == set_X(opt, lst, input)
           IN  /\ lst' = r.list
               /\ last' = Call("set", input, FALSE, lst, r)
               /\ heap' = IF r.native THEN set_X_allocs(heap) ELSE heap
        /\ given' = IF AnyNul(input) THEN given ELSE input
        /\ UNCHANGED <<opt, pkg, handleVars, borrowVars, flist>>

HeapNext == Licenses \/ Hookdirs \/ RequiredBy \/ OptionalFor
                \/ ReadList \/ DropList \/ SetHookdirs

HeapSpec == HeapInit /\ [][HeapNext]_vars

----------------------------------------------------------------------------
(* Native status codes: the setters that return nothing, and the removal   *)
(* hook.  Each yields the handle afterwards, whether the native function   *)
(* was called, its return code and what the wrapper returns ("()" where    *)
(* the function has no return type).                                       *)

Status(hh, called, ret, res) ==
    [h |-> hh, native |-> called, ret |-> ret, res |-> res]

\* the arguments of set_parallel_downloads
ParallelCounts == {0, 1, 2}

\* the packages handed to trans_remove_pkg
PkgNames == {"p", "q"}

set_use_syslog(hh, b) ==
    Status([hh EXCEPT !.usesyslog = BoolAsInt(b)], TRUE, 0, "()")

set_disable_dl_timeout(hh, b) ==
    Status([hh EXCEPT !.disable_dl_timeout = BoolAsInt(b)], TRUE, 0, "()")

\* set_dbext; fail: the native library cannot keep a copy of the string
set_dbext(hh, s, fail) ==
    LET c == CStringNew(s)
    IN  IF c.panic THEN Status(hh, FALSE, 0, "panic")
        ELSE IF fail THEN Status(hh, TRUE, -1, "()")
        ELSE Status([hh EXCEPT !.dbext = c.buf], TRUE, 0, "()")

\* set_parallel_downloads: the native library takes no count below one
set_parallel_downloads(hh, n) ==
    IF n < 1 THEN Status(hh, TRUE, -1, "()")
    ELSE Status([hh EXCEPT !.parallel_downloads = n], TRUE, 0, "()")

\* alpm_remove_pkg: the package joins the open transaction's removals; an
\* error without an open transaction or for a package that is in it already
alpm_remove_pkg(hh, p) ==
    IF ~hh.trans.open \/ p \in hh.trans.remove THEN [ret |-> -1, h |-> hh]
    ELSE [ret |-> 0, h |-> [hh EXCEPT !.trans.remove = @ \cup {p}]]

trans_remove_pkg(hh, p) ==
    LET r == alpm_remove_pkg(hh, p)
    IN  Status(r.h, TRUE, r.ret, check_ret(r.ret))

\* the record of a call that takes one argument
Call1(op, arg, r) ==
    [op |-> op, arg |-> <<arg>>, native |-> r.native, ret |-> r.ret, res |-> r.res]

StatusInit ==
    /\ \E o \in BOOLEAN :
           h = [alpm_initialize(<<"/", Nul>>, <<"t", "/", Nul>>) EXCEPT !.trans.open = o]
    /\ made = [root |-> <<"/">>, dbpath |-> <<"t", "/">>, check |-> FALSE, sig |-> {}]
    /\ pkg = NoPkg /\ heap = FreshHeap
    /\ opt = "hookdirs" /\ lst = <<>> /\ given = <<>>
    /\ alive = TRUE /\ views = {}
    /\ flist = NoFiles
    /\ last = NoCall

SetUseSyslog ==
    \E b \in BOOLEAN :
        LET r == set_use_syslog(h, b)
        IN  /\ h' = r.h
            /\ last' = Call1("set_use_syslog", b, r)
            /\ UNCHANGED <<made, listVars, borrowVars, flist, pkgVars>>

SetDisableDlTimeout ==
    \E b \in BOOLEAN :
        LET r == set_disable_dl_timeout(h, b)
        IN  /\ h' = r.h
            /\ last' = Call1("set_disable_dl_timeout", b, r)
            /\ UNCHANGED <<made, listVars, borrowVars, flist, pkgVars>>

SetDbext ==
    \E s \in Strs, fail \in BOOLEAN :
        LET r == set_dbext(h, s, fail)
        IN  /\ h' = r.h
            /\ last' = Call1("set_dbext", s, r)
            /\ UNCHANGED <<made, listVars, borrowVars, flist, pkgVars>>

SetParallelDownloads ==
    \E n \in ParallelCounts :
        LET r == set_parallel_downloads(h, n)
        IN  /\ h' = r.h
            /\ last' = Call1("set_parallel_downloads", n, r)
            /\ UNCHANGED <<made, listVars, borrowVars, flist, pkgVars>>

TransRemovePkg ==
    \E p \in PkgNames :
        LET r == trans_remove_pkg(h, p)
        IN  /\ h' = r.h
            /\ last' = Call1("trans_remove_pkg", p, r)
            /\ UNCHANGED <<made, listVars, borrowVars, flist, pkgVars>>

StatusNext == SetUseSyslog \/ SetCheckSpace \/ SetDisableDlTimeout
                  \/ SetParallelDownloads \/ SetDbext \/ SetLogfile
                  \/ TransRemovePkg

StatusSpec == StatusInit /\ [][StatusNext]_vars

----------------------------------------------------------------------------
(* Decoding native integers into flags and enumerations *)

\* the constants of PackageFrom: File, LocalDb, SyncDb
PackageFromVals == {1, 2, 3}

\* the constants of PackageReason: Explicit, Depend
PackageReasonVals == {0, 1}

\* the bit of each PackageValidation flag: NONE, MD5SUM, SHA256SUM,
\* SIGNATURE
ValidationBits == {0, 1, 2, 3}

\* what the native library can report: constants next to the known ones,
\* words with a bit (5) that is no flag
NativeOrigins == 0..4
NativeReasons == 0..2
NativeValidations == {{}, {0}, {1, 3}, {5}, {0, 5}}
NativeLevels == {{}, {0, 10}, {0, 5}}

\* transmute::<_, E>(n): the variant with discriminant n.  For an n that E
\* has no variant for the behaviour is undefined: the value may carry n
\* itself or be taken for any variant; nothing stops the call.
transmute(n, variants) ==
    IF n \in variants THEN {[panic |-> FALSE, value |-> n]}
    ELSE {[panic |-> FALSE, value |-> v] : v \in variants \cup {n}}

origin(p) == transmute(p.origin, PackageFromVals)

reason(p) == transmute(p.reason, PackageReasonVals)

\* PackageValidation::from_bits(bits).unwrap()
validation_from_bits(bits) ==
    [panic |-> ~(bits \subseteq ValidationBits), bits |-> bits]

validation(p) == validation_from_bits(IntAsU32(p.validation))

local_file_siglevel(hh) == from_bits(IntAsU32(hh.local_file_siglevel))

remote_file_siglevel(hh) == from_bits(IntAsU32(hh.remote_file_siglevel))

\* the packages a Pkg view can point to, as far as their enumerations go
EnumPkgs ==
    {[NoPkg EXCEPT !.origin = o, !.reason = r, !.validation = v] :
        o \in NativeOrigins, r \in NativeReasons, v \in NativeValidations}

DecodeInit ==
    /\ pkg \in EnumPkgs
    /\ heap = FreshHeap
    /\ HandleAt(<<"/">>, <<"t", "/">>)
    /\ opt = "hookdirs" /\ lst = <<>> /\ given = <<>>
    /\ alive = TRUE /\ views = {}
    /\ flist = NoFiles
    /\ last = NoCall

\* code that took the raw handle from as_alpm_handle_t sets a signature
\* level through the native API
NativeSetSiglevel ==
    \E f \in {"siglevel", "local_file_siglevel", "remote_file_siglevel"},
       l \in NativeLevels :
        /\ h' = [h EXCEPT ![f] = l]
        /\ last' = [op |-> "as_alpm_handle_t", field |-> f]
        /\ UNCHANGED <<made, listVars, borrowVars, flist, pkgVars>>

LocalFileSiglevel ==
    /\ last' = [op |-> "local_file_siglevel", res |-> local_file_siglevel(h)]
    /\ UNCHANGED <<listVars, handleVars, borrowVars, flist, pkgVars>>

RemoteFileSiglevel ==
    /\ last' = [op |-> "remote_file_siglevel", res |-> remote_file_siglevel(h)]
    /\ UNCHANGED <<listVars, handleVars, borrowVars, flist, pkgVars>>

Origin ==
    \E r \in origin(pkg) :
        /\ last' = [op |-> "origin", res |-> r]
        /\ UNCHANGED <<listVars, handleVars, borrowVars, flist, pkgVars>>

Reason ==
    \E r \in reason(pkg) :
        /\ last' = [op |-> "reason", res |-> r]
        /\ UNCHANGED <<listVars, handleVars, borrowVars, flist, pkgVars>>

Validation ==
    /\ last' = [op |-> "validation", res |-> validation(pkg)]
    /\ UNCHANGED <<listVars, handleVars, borrowVars, flist, pkgVars>>

DecodeNext == NativeSetSiglevel \/ DefaultSiglevel \/ LocalFileSiglevel
                  \/ RemoteFileSiglevel \/ Origin \/ Reason \/ Validation

DecodeSpec == DecodeInit /\ [][DecodeNext]_vars

----------------------------------------------------------------------------
(* The operations that take one string: besides add_X, remove_X,           *)
(* set_logfile, set_dbext and FileList::contains, the directory setter     *)
(* set_gpgdir and the pattern matchers                                     *)

\* set_gpgdir handing the native library the bytes before the first nul
set_gpgdir_truncating(hh, s, fail) ==
    LET cut == from_cstr(Append(s, Nul))
    IN  IF fail THEN Status(hh, TRUE, -1, check_ret(-1))
        ELSE Status([hh EXCEPT !.gpgdir = Ptr(canonicalize_path(Append(cut, Nul)))],
                    TRUE, 0, check_ret(0))

\* set_gpgdir: the native library keeps the directory as it keeps those of
\* its lists; fail: it rejects the path
set_gpgdir(hh, s, fail) ==
    LET c == CStringNew(s)
    IN  IF c.panic THEN Status(hh, FALSE, 0, "panic")
        ELSE IF fail THEN Status(hh, TRUE, -1, check_ret(-1))
        ELSE Status([hh EXCEPT !.gpgdir = Ptr(canonicalize_path(c.buf))],
                    TRUE, 0, check_ret(0))

\* alpm_option_match_noupgrade / _noextract: the patterns are tried from
\* the last to the first; the first that fits decides with 0, or with 1
\* when it is written "!pattern"; -1 when none fits.  Patterns here hold no
\* wildcard, so one fits a path when it equals it.
alpm_option_match(patterns, cs) ==
    LET path == from_cstr(cs)
        Inverted(i) == Len(from_cstr(patterns[i])) > 0 /\ Head(patterns[i]) = "!"
        Body(i) == IF Inverted(i) THEN Tail(from_cstr(patterns[i]))
                   ELSE from_cstr(patterns[i])
        hits == {i \in 1..Len(patterns) : Body(i) = path}
    IN  IF hits = {} THEN -1
        ELSE LET k == CHOOSE i \in hits : \A j \in hits : j <= i
             IN  IF Inverted(k) THEN 1 ELSE 0

\* match ret.cmp(&0)
MatchResult(ret) ==
    IF ret = 0 THEN "Yes" ELSE IF ret > 0 THEN "Inverted" ELSE "No"

\* the native list a matcher looks at: the session's list when that is the
\* matcher's, else one nothing was put into
Patterns(X) == IF opt = X THEN lst ELSE <<>>

match_noupgrade(hh, s) ==
    LET c == CStringNew(s)
    IN  IF c.panic THEN Status(hh, FALSE, 0, "panic")
        ELSE LET ret == alpm_option_match(Patterns("noupgrades"), c.buf)
             IN  Status(hh, TRUE, ret, MatchResult(ret))

match_noextract(hh, s) ==
    LET c == CStringNew(s)
    IN  IF c.panic THEN Status(hh, FALSE, 0, "panic")
        ELSE LET ret == alpm_option_match(Patterns("noextracts"), c.buf)
             IN  Status(hh, TRUE, ret, MatchResult(ret))

\* the session works on noupgrades, the list match_noupgrade reads
OptInit ==
    /\ opt = "noupgrades"
    /\ lst = <<>>
    /\ given = <<>>
    /\ HandleAt(<<"/">>, <<"t", "/">>)
    /\ alive = TRUE /\ views = {}
    /\ flist = [null |-> FALSE, files |-> FileArray({1, 2}, 1), count |-> 2]
    /\ pkg = NoPkg /\ heap = FreshHeap
    /\ last = NoCall

SetGpgdir ==
    \E s \in Strs, fail \in BOOLEAN :
        LET r == set_gpgdir(h, s, fail)
        IN  /\ h' = r.h
            /\ last' = Call1("set_gpgdir", s, r)
            /\ UNCHANGED <<made, listVars, borrowVars, flist, pkgVars>>

MatchNoupgrade ==
    \E s \in Strs :
        LET r == match_noupgrade(h, s)
        IN  /\ h' = r.h
            /\ last' = Call1("match_noupgrade", s, r)
            /\ UNCHANGED <<made, listVars, borrowVars, flist, pkgVars>>

MatchNoextract ==
    \E s \in Strs :
        LET r == match_noextract(h, s)
        IN  /\ h' = r.h
            /\ last' = Call1("match_noextract", s, r)
            /\ UNCHANGED <<made, listVars, borrowVars, flist, pkgVars>>

OptNext == AddX \/ RemoveX \/ MatchNoupgrade \/ MatchNoextract
               \/ SetLogfile \/ SetGpgdir \/ SetDbext \/ Contains

OptSpec == OptInit /\ [][OptNext]_vars

----------------------------------------------------------------------------
(* Claims about the managed lists (checked under ListSpec) *)

ReadAfter(op) == last.op = "get" /\ last.after.op = op

\* C3 as stated: after set_X(input) returns Ok, reading X back yields exactly
\* input, element for element, for every managed list option X.
C3_SetRoundTripExact ==
    (ReadAfter("set") /\ last.after.res = "Ok(())")
        => last.view = last.after.arg

\* C3, amended: after set_X(input) returns Ok, reading X back yields one
\* entry per input element, in input order, with no earlier entry left; the
\* entry is the element itself, except that hookdirs and cachedirs give back
\* an element that does not end in "/" with a "/" added.
C3_SetRoundTrip ==
    (ReadAfter("set") /\ last.after.res = "Ok(())")
        => /\ Len(last.view) = Len(last.after.arg)
           /\ \A i \in 1..Len(last.view) :
                  LET e == last.after.arg[i]
                  IN  last.view[i] =
                          IF opt \in {"hookdirs", "cachedirs"} /\ e[Len(e)] # "/"
                          THEN e \o <<"/">> ELSE e

C3_Witness ==
    /\ ReadAfter("set") /\ last.after.res = "Ok(())"
    /\ opt = "hookdirs"
    /\ last.after.before # <<>>
    /\ last.after.arg = << <<"a">>, <<"b">> >>

C4_WitnessRemoved ==
    /\ ReadAfter("remove") /\ last.after.res = "Ok(true)"
    /\ Len(last.after.before) = 2
    /\ last.view = << <<"b">> >>

\* C5: remove_X turns native code 1 into Ok(true), 0 into Ok(false) and any
\* other code into Err; removing a string that is not in the list is
\* Ok(false), not an error, and leaves the list as it was.
C5_RemoveTriState ==
    (last.op = "remove" /\ last.native)
        => /\ last.ret = 1 => last.res = "Ok(true)"
           /\ last.ret = 0 => last.res = "Ok(false)"
           /\ last.ret \notin {0, 1} => last.res = "Err"
           /\ last.res \in {"Ok(true)", "Ok(false)", "Err"}
           /\ (/\ ~last.fail
               /\ \A i \in 1..Len(last.before) :
                      from_cstr(last.before[i]) # StoredForm(opt, last.arg[1]))
                  => last.res = "Ok(false)" /\ lst = last.before

C5_Witness ==
    /\ last.op = "remove" /\ last.native
    /\ last.res = "Ok(false)"
    /\ last.before # <<>>
    /\ lst = last.before

C5_WitnessRemoved == last.op = "remove" /\ last.res = "Ok(true)" /\ Len(lst) >= 1

C5_WitnessErr == last.op = "remove" /\ last.res = "Err"

\* C6: a set_X whose input holds an element that cannot be converted (an
\* embedded nul) does not return Ok, never reaches the native set call and
\* leaves the list exactly as it was: no part of the input is in it.
C6_SetAllOrNothing ==
    (last.op = "set" /\ AnyNul(last.arg))
        => /\ last.res # "Ok(())"
           /\ ~last.native
           /\ lst = last.before

C6_Witness ==
    /\ last.op = "set"
    /\ Len(last.arg) = 2 /\ ~HasNul(last.arg[1]) /\ HasNul(last.arg[2])
    /\ last.before # <<>>
    /\ last.res = "panic"

----------------------------------------------------------------------------
(* Claims about the handle's scalar options (checked under Spec) *)

\* C7: default_siglevel() returns exactly the level L of the most recent
\* set_default_siglevel(L) that returned Ok (NONE on a fresh handle),
\* whatever level was stored before: the casts between the wrapper's u32
\* and the native int add, drop or reinterpret no bit.
C7_SiglevelRoundTrip ==
    last.op = "default_siglevel"
        => ~last.res.panic /\ last.res.bits = made.sig

C7_Witness ==
    /\ last.op = "default_siglevel"
    /\ made.sig = {0, 10, 30}
    /\ last.res.bits = {0, 10, 30}

C7_WitnessOverwrite ==
    /\ last.op = "set_default_siglevel" /\ last.res = "Ok(())"
    /\ last.was = {1, 30} /\ last.arg = {0}

\* C8: check_space() returns the argument of the most recent
\* set_check_space call, and false on a fresh handle.
C8_CheckSpaceRoundTrip ==
    last.op = "check_space" => last.res = made.check

C8_Witness ==
    /\ last.op = "check_space"
    /\ made.check = TRUE
    /\ last.res = TRUE

C8_WitnessBack == last.op = "set_check_space" /\ ~last.arg /\ h.checkspace = 0

\* the canonical absolute form of a directory path: resolved against the
\* working directory, ending in "/"
CanonicalDir(p) ==
    LET a == IF Head(p) = "/" THEN p ELSE <<"/", "w", "/">> \o p
    IN  IF a[Len(a)] = "/" THEN a ELSE a \o <<"/">>

\* C9 as stated: root() and dbpath() return the paths given at creation.
C9_PathsEchoInput ==
    /\ last.op = "root" => last.res = made.root
    /\ last.op = "dbpath" => last.res = made.dbpath

\* C9, amended: after creation root() and dbpath() return the canonical
\* absolute form of the path given (resolved against the working directory,
\* ending in "/"), which is the path given exactly when that is already
\* canonical; no later option mutation changes either value.
C9_PathsCanonical ==
    /\ root(h) = CanonicalDir(made.root)
    /\ dbpath(h) = CanonicalDir(made.dbpath)
    /\ last.op = "root"
           => /\ last.res = CanonicalDir(made.root)
              /\ made.root = CanonicalDir(made.root) => last.res = made.root
    /\ last.op = "dbpath"
           => /\ last.res = CanonicalDir(made.dbpath)
              /\ made.dbpath = CanonicalDir(made.dbpath) => last.res = made.dbpath

C9_Witness ==
    /\ last.op = "dbpath"
    /\ made.root = <<"/">> /\ made.dbpath = <<"t", "/">>
    /\ last.res = <<"/", "w", "/", "t", "/">>
    /\ made.check /\ made.sig # {}

----------------------------------------------------------------------------
(* Claims about borrows (checked under BorrowSpec) *)

\* C1: every mutator of the handle borrows it mutably, so no mutation runs
\* while a view obtained from one of the handle's getters is still held.
C1_MutationExclusive ==
    last.op = "mutate"
        => last.held \cap {"logfile", "gpgdir", "dbext", "hookdirs", "db"} = {}

\* C1, the mutators that do keep the discipline: those taking &mut self
C1_MutSelfExclusive ==
    (last.op = "mutate" /\ last.name \in MutSelfOps)
        => last.held \cap BorrowsHandle = {}

\* C2: no view is read after the handle that produced it has been dropped.
C2_NoReadAfterDrop ==
    last.op = "read" => last.alive

\* C2, the views that do carry the handle's lifetime
C2_BorrowingViewsNeedHandle ==
    (last.op = "read" /\ last.view \in BorrowsHandle) => last.alive

----------------------------------------------------------------------------
(* Claims about file lists (checked under FileSpec) *)

HasFile(fl, path) == \E i \in 1..Len(fl.files) : name(fl.files[i]) = path

\* C10: contains(path) is Ok(None) when no record of the list has that path
\* and Ok(Some(file)) with file.name() = path when one has; finding nothing
\* is never an error, and the list is the same afterwards.
C10_ContainsFindsByName ==
    (last.op = "contains" /\ ~HasNul(last.path))
        => /\ last.res.tag = "Ok"
           /\ last.res.some <=> HasFile(flist, last.path)
           /\ last.res.some
                  => /\ name(last.res.file) = last.path
                     /\ \E i \in 1..Len(flist.files) : flist.files[i] = last.res.file
           /\ flist \in FileLists

C10_Witness ==
    /\ last.op = "contains"
    /\ last.res.tag = "Ok" /\ last.res.some
    /\ last.path = <<"c">>
    /\ flist.count >= 3

C10_WitnessNone ==
    /\ last.op = "contains"
    /\ last.res.tag = "Ok" /\ ~last.res.some
    /\ last.path = <<"z">>
    /\ flist.count >= 1

----------------------------------------------------------------------------
(* Claims about optional strings (checked under PkgSpec) *)

\* the native pointer behind an optional string getter
FieldPtr(op) == IF op = "logfile" THEN h.logfile ELSE pkg[op]

\* C11: url(), desc(), base(), packager(), arch() and Alpm::logfile() return
\* None exactly when the native pointer is null, and Some of the string
\* behind it otherwise: Some("") when that string is empty.  Absence and
\* emptiness are never given the same result.
C11_AbsentIsNotEmpty ==
    /\ None # Some(<<>>)
    /\ last.op \in {"url", "desc", "base", "packager", "arch", "logfile"}
           => LET p == FieldPtr(last.op)
              IN  /\ p.null <=> last.res = None
                  /\ ~p.null => last.res = Some(from_cstr(p.str))
                  /\ (~p.null /\ p.str = <<Nul>>) => last.res = Some(<<>>)

C11_Witness ==
    /\ last.op = "desc"
    /\ pkg.url = NullPtr /\ pkg.desc = Ptr(<<Nul>>)
    /\ last.res = Some(<<>>)

C11_WitnessAbsent ==
    /\ last.op = "url"
    /\ pkg.url = NullPtr /\ pkg.desc = Ptr(<<Nul>>)
    /\ last.res = None

C11_WitnessLogfile ==
    /\ last.op = "logfile"
    /\ h.logfile = Ptr(<<Nul>>)
    /\ last.res = Some(<<>>)

----------------------------------------------------------------------------
(* Claims about list deallocation (checked under HeapSpec) *)

\* some view of list i is held
Held(i) == \E v \in heap.held : v.list = i

C12_WitnessBorrowed ==
    /\ last.op = "drop_list" /\ last.view = from_parts("AlpmList", 1)
    /\ heap.lists[1] = Alloc("native")

C12_WitnessRead ==
    /\ last.op = "read_list" /\ last.view.kind = "AlpmListMut"
    /\ ~last.freed

----------------------------------------------------------------------------
(* Claims about native status codes (checked under StatusSpec) *)

\* the calls recorded with the native return code
StatusOps == {"set_use_syslog", "set_disable_dl_timeout", "set_dbext",
              "set_parallel_downloads", "set_logfile", "trans_remove_pkg"}

\* C13: every native integer status is checked and turned into a typed
\* result: no call whose native function failed returns Ok or returns
\* nothing (set_use_syslog, set_check_space, set_dbext,
\* set_disable_dl_timeout and set_parallel_downloads included), and
\* trans_remove_pkg returns Ok exactly when the native call returns 0.
C13_StatusChecked ==
    (last.op \in StatusOps /\ last.native)
        => /\ last.ret # 0 => last.res = "Err"
           /\ last.op = "trans_remove_pkg" => (last.res = "Ok(())" <=> last.ret = 0)

\* C13, the calls that do check the status: set_logfile and
\* trans_remove_pkg return Ok exactly when the native call returns 0, and
\* Err otherwise.
C13_CheckedCalls ==
    (last.op \in {"set_logfile", "trans_remove_pkg"} /\ last.native)
        => /\ last.res \in {"Ok(())", "Err"}
           /\ last.res = "Ok(())" <=> last.ret = 0

C13_WitnessRemoveErr ==
    /\ last.op = "trans_remove_pkg"
    /\ h.trans.open /\ h.trans.remove = {"p"} /\ last.arg = <<"p">>
    /\ last.res = "Err"

----------------------------------------------------------------------------
(* Claims about decoding (checked under DecodeSpec) *)

\* the native word a flag getter decodes, and the flags it knows
FlagWord(op) ==
    CASE op = "default_siglevel" -> h.siglevel
      [] op = "local_file_siglevel" -> h.local_file_siglevel
      [] op = "remote_file_siglevel" -> h.remote_file_siglevel
      [] op = "validation" -> pkg.validation

KnownBits(op) == IF op = "validation" THEN ValidationBits ELSE SigFlagBits

FlagGetters == {"default_siglevel", "local_file_siglevel",
                "remote_file_siglevel", "validation"}

\* the flag getters fail closed: a word with a bit that is no flag aborts
\* the call, any other word comes back bit for bit
FlagsFailClosed ==
    last.op \in FlagGetters
        => /\ last.res.panic <=> ~(FlagWord(last.op) \subseteq KnownBits(last.op))
           /\ ~last.res.panic => last.res.bits = FlagWord(last.op)

\* C14: decoding a native integer fails closed.  default_siglevel,
\* local_file_siglevel, remote_file_siglevel and Pkg::validation abort on a
\* word with an unrecognized bit and drop no bit; Pkg::origin and
\* Pkg::reason abort on a constant that is none of the enumeration's and
\* never produce an out-of-range variant.
C14_DecodeFailsClosed ==
    /\ FlagsFailClosed
    /\ last.op = "origin"
           => /\ last.res.panic <=> pkg.origin \notin PackageFromVals
              /\ ~last.res.panic => last.res.value = pkg.origin
    /\ last.op = "reason"
           => /\ last.res.panic <=> pkg.reason \notin PackageReasonVals
              /\ ~last.res.panic => last.res.value = pkg.reason

\* C14, the part the code keeps: the three signature level getters and
\* Pkg::validation fail closed.
C14_FlagsFailClosed == FlagsFailClosed

C14_WitnessPanic ==
    /\ last.op = "local_file_siglevel"
    /\ h.local_file_siglevel = {0, 5}
    /\ last.res.panic

C14_WitnessValidation ==
    /\ last.op = "validation"
    /\ pkg.validation = {0, 5}
    /\ last.res.panic

----------------------------------------------------------------------------
(* Claims about the records of a file list (checked under RawFileSpec) *)

\* C15: files() returns no record when the native files pointer is null,
\* whatever count the struct holds, and otherwise exactly count records,
\* the i-th being the i-th of the native array; nothing is read through a
\* null pointer.
C15_FilesEmptySafe ==
    /\ last.op = "files"
           => /\ flist.null => last.res = <<>>
              /\ ~flist.null
                     => /\ Len(last.res) = flist.count
                        /\ \A i \in 1..flist.count : last.res[i] = flist.files[i]
    /\ last.op = "entry" => ~flist.null /\ last.at <= flist.count

C15_Witness ==
    /\ last.op = "files"
    /\ flist.null /\ flist.count = 2
    /\ last.res = <<>>

C15_WitnessRecords ==
    /\ last.op = "files"
    /\ ~flist.null /\ flist.count = 3
    /\ Len(last.res) = 3 /\ name(last.res[1]) = <<"a", "/">>

----------------------------------------------------------------------------
(* Claims about single-string operations (checked under OptSpec) *)

StrOps == {"add", "remove", "match_noupgrade", "match_noextract",
           "set_logfile", "set_gpgdir", "set_dbext", "contains"}

\* the string handed to a call
StrArg(c) == IF c.op = "contains" THEN c.path ELSE c.arg[1]

\* the call ended in a panic, before the native function was called
Aborted(c) ==
    IF c.op = "contains" THEN c.res.tag = "panic"
    ELSE c.res = "panic" /\ ~c.native

\* C16: add_X, remove_X, match_noupgrade, match_noextract, set_logfile,
\* set_gpgdir, set_dbext and FileList::contains, called with a string that
\* holds a nul byte, abort before the native function is called: the
\* managed list, every option of the handle and the file list are after
\* the call what they were before it, and no prefix of the string got
\* into any of them.
C16_NulAborts ==
    [][(last'.op \in StrOps /\ HasNul(StrArg(last')))
           => /\ Aborted(last')
              /\ lst' = lst /\ opt' = opt /\ h' = h /\ flist' = flist]_vars

C16_Witness ==
    /\ last.op = "set_gpgdir" /\ HasNul(last.arg[1])
    /\ last.res = "panic"
    /\ h.gpgdir = Ptr(<<"b", "/", Nul>>)
    /\ lst # <<>>

C16_WitnessAdd ==
    /\ last.op = "add" /\ HasNul(last.arg[1])
    /\ last.res = "panic"
    /\ lst = << <<"a", Nul>> >>

C16_WitnessContains ==
    /\ last.op = "contains" /\ HasNul(last.path)
    /\ last.res.tag = "panic"

====
